---------------------------- MODULE Spec2Model ----------------------------
(***************************************************************************)
(* A model of lkpatcher: the patch catalog (PatchManager), the category    *)
(* selector (PatcherConfig.should_apply_category) and the patch engine     *)
(* (LkPatcher.patch).                                                      *)
(*                                                                         *)
(* Representation.                                                         *)
(*   - A Python str is a sequence of one-character strings, so that hex    *)
(*     decoding and the validation regex are computed character by         *)
(*     character.  A JSON value that is not a string is NotAString.        *)
(*   - A Python dict is a sequence of <<key, value>> pairs with distinct   *)
(*     keys, in insertion order (dicts iterate in insertion order).        *)
(*   - A catalog is a dict from category name to a dict needle -> patch.   *)
(*   - bytes / bytearray are sequences of integers in 0..255.              *)
(***************************************************************************)
EXTENDS Integers, Sequences, FiniteSets, TLC

(***************************************************************************)
(* Bounds of the model.                                                    *)
(***************************************************************************)
\* longest image buffer, in bytes, besides the scenario image
MaxImgLen == 3
\* longest needle / patch of a generated override rule, in bytes
MaxRuleBytes == 1
\* number of LkPatcher.patch calls on one patcher
MaxRuns == 2
\* number of PatchManager constructions in one process
MaxManagers == 2

(***************************************************************************)
(* Sequences and dicts.                                                    *)
(***************************************************************************)
Range(s) == {s[i] : i \in DOMAIN s}

\* dict.keys(), in insertion order
Keys(d) == [i \in DOMAIN d |-> d[i][1]]

\* key in dict
Has(d, k) == \E i \in DOMAIN d : d[i][1] = k

\* dict[key]
Get(d, k) == d[CHOOSE i \in DOMAIN d : d[i][1] = k][2]

\* dict[key] = value : an existing key keeps its position, a new key is appended
Put(d, k, v) ==
  IF Has(d, k)
    THEN [i \in DOMAIN d |-> IF d[i][1] = k THEN <<k, v>> ELSE d[i]]
    ELSE Append(d, <<k, v>>)

\* dict.update(other)
RECURSIVE Update(_, _)
Update(d, other) ==
  IF other = <<>> THEN d
  ELSE Update(Put(d, Head(other)[1], Head(other)[2]), Tail(other))

\* the rules of a catalog as one sequence of [category, needle, patch], in
\* iteration order (for category ...: for needle, patch ...)
RECURSIVE Flatten(_)
Flatten(catalog) ==
  IF catalog = <<>> THEN <<>>
  ELSE [i \in DOMAIN Head(catalog)[2] |->
          [category |-> Head(catalog)[1],
           needle   |-> Head(catalog)[2][i][1],
           patch    |-> Head(catalog)[2][i][2]]]
       \o Flatten(Tail(catalog))

(***************************************************************************)
(* Strings, the hex grammar and hex decoding.                              *)
(***************************************************************************)
\* a JSON value that is not a string (a number, null, a list ...)
NotAString == <<"#not-a-string">>

IsString(v) == v # NotAString

LowerHexDigits == <<"0","1","2","3","4","5","6","7","8","9","a","b","c","d","e","f">>
UpperHexDigits == <<"0","1","2","3","4","5","6","7","8","9","A","B","C","D","E","F">>

\* [0-9a-fA-F]
IsHexDigit(c) == c \in Range(LowerHexDigits) \cup Range(UpperHexDigits)

\* int(c, 16)
HexValue(c) ==
  (CHOOSE i \in 1..16 : LowerHexDigits[i] = c \/ UpperHexDigits[i] = c) - 1

\* hex_pattern.match(s) for re.compile(r'^[0-9a-fA-F]+$'): one or more hex
\* digits; Python's $ also matches just before one trailing newline.
hex_pattern_match(s) ==
  LET body == IF s # <<>> /\ s[Len(s)] = "\n" THEN SubSeq(s, 1, Len(s) - 1) ELSE s
  IN  /\ body # <<>>
      /\ \A i \in DOMAIN body : IsHexDigit(body[i])

\* bytes.fromhex(s): ValueError unless s is an even number of hex digits
\* (no input of the model holds whitespace, which fromhex would skip)
fromhex_ok(s) ==
  /\ \A i \in DOMAIN s : IsHexDigit(s[i])
  /\ Len(s) % 2 = 0

fromhex(s) ==
  [i \in 1..(Len(s) \div 2) |-> 16 * HexValue(s[2 * i - 1]) + HexValue(s[2 * i])]

(***************************************************************************)
(* The image component (liblk.LkImage), at its interface.                  *)
(***************************************************************************)
\* whether needle occurs in contents at 0-based offset i
OccursAt(contents, needle, i) ==
  /\ i >= 0
  /\ i + Len(needle) <= Len(contents)
  /\ \A j \in 1..Len(needle) : contents[i + j] = needle[j]

\* bytearray.find(needle): the lowest offset of an occurrence, -1 if none
find(contents, needle) ==
  IF \E i \in 0..Len(contents) : OccursAt(contents, needle, i)
    THEN CHOOSE i \in 0..Len(contents) :
           /\ OccursAt(contents, needle, i)
           /\ \A j \in 0..(i - 1) : ~OccursAt(contents, needle, j)
    ELSE -1

\* contents[offset : offset + len(patch)] = patch
splice(contents, offset, patch) ==
  LET stop == offset + Len(patch)
  IN  SubSeq(contents, 1, offset) \o patch \o
      (IF stop < Len(contents) THEN SubSeq(contents, stop + 1, Len(contents)) ELSE <<>>)

\* LkImage.apply_patch(needle, patch): the signal it gives ...
apply_patch_signal(contents, needle, patch) ==
  IF ~(IsString(needle) /\ IsString(patch)) THEN "TypeError"
  ELSE IF ~(fromhex_ok(needle) /\ fromhex_ok(patch)) THEN "ValueError"
  ELSE IF find(contents, fromhex(needle)) = -1 THEN "NeedleNotFoundException"
  ELSE "found"

\* ... and the buffer it leaves
apply_patch_contents(contents, needle, patch) ==
  IF apply_patch_signal(contents, needle, patch) = "found"
    THEN splice(contents, find(contents, fromhex(needle)), fromhex(patch))
    ELSE contents

\* hashlib.sha256(contents).hexdigest(), taken to be collision free
sha256(contents) == <<"sha256", contents>>

(***************************************************************************)
(* PatchManager.DEFAULT_PATCHES as the module is imported.                 *)
(***************************************************************************)
BUILTIN_PATCHES == <<
   <<"fastboot", <<
      <<<<"2","d","e","9","f","0","4","f","a","d","f","5","a","c","5","d">>,
        <<"0","0","2","0","7","0","4","7">>>>,
      <<<<"f","0","b","5","a","d","f","5","9","2","5","d">>,
        <<"0","0","2","0","7","0","4","7">>>>
   >> >>,
   <<"dm_verity", <<
      <<<<"3","0","b","5","8","3","b","0","0","2","a","b","0","0","2","2">>,
        <<"0","0","2","0","7","0","4","7">>>>
   >> >>,
   <<"orange_state", <<
      <<<<"0","8","b","5","0","a","4","b","7","b","4","4","1","b","6","8","1","b","6","8","0","2","2","b">>,
        <<"0","0","2","0","7","0","4","7">>>>,
      <<<<"0","8","b","5","0","e","4","b","7","b","4","4","1","b","6","8","1","b","6","8","0","2","2","b">>,
        <<"0","0","2","0","7","0","4","7">>>>
   >> >>,
   <<"red_state", <<
      <<<<"f","0","b","5","0","0","2","4","8","9","b","0">>,
        <<"0","0","2","0","7","0","4","7">>>>
   >> >>
>>

(***************************************************************************)
(* Inputs: override files, configurations, images.                         *)
(***************************************************************************)
Hex00 == <<"0","0">>
HexAA == <<"a","a">>

\* the hex strings of 0..n bytes over the bytes 00 and aa
RECURSIVE HexStrings(_)
HexStrings(n) ==
  IF n = 0 THEN {<<>>}
  ELSE LET shorter == HexStrings(n - 1)
       IN  shorter \cup {b \o s : b \in {Hex00, HexAA}, s \in shorter}

GeneratedHex == HexStrings(MaxRuleBytes) \ {<<>>}

\* the bytearrays of 0..n bytes over the bytes 0x00 and 0xaa
RECURSIVE ByteStrings(_)
ByteStrings(n) ==
  IF n = 0 THEN {<<>>}
  ELSE LET shorter == ByteStrings(n - 1)
       IN  shorter \cup {<<b>> \o s : b \in {0, 170}, s \in shorter}

\* b"\xf0\xb5\xad\xf5\x92\x5d" + filler: holds the second 'fastboot' needle
ScenarioImage == <<240, 181, 173, 245, 146, 93, 170>>

Images == ByteStrings(MaxImgLen) \cup {ScenarioImage}

ImagePath == "lk.img"
OutputPath == "lk-patched.img"

NoFile == [kind |-> "none"]
MissingFile == [kind |-> "missing"]
\* a file that exists and cannot be opened for reading (no permission, a
\* directory)
UnreadableFile == [kind |-> "unreadable"]
InvalidJsonFile == [kind |-> "invalid_json"]
NonObjectFile == [kind |-> "non_object"]
ObjectFile(mode, entries) == [kind |-> "object", mode |-> mode, entries |-> entries]

\* one top-level key of an override object: a category and its value, which
\* is an object of needle -> patch (is_dict) or anything else
Entry(category, rules) == [category |-> category, is_dict |-> TRUE, rules |-> rules]
BadEntry(category) == [category |-> category, is_dict |-> FALSE, rules |-> <<>>]

\* rule dicts with hand-picked shapes: overlapping occurrences, a patch
\* shorter / longer than its needle, a chain of two rules, upper-case hex,
\* a string that is not hex, an odd number of digits, a patch that is no string,
\* no rule at all
ShapedRuleDicts == {
  << <<HexAA \o HexAA, Hex00 \o Hex00>> >>,
  << <<HexAA \o Hex00, Hex00>> >>,
  << <<HexAA, Hex00 \o HexAA>> >>,
  << <<HexAA, Hex00>>, <<Hex00, HexAA>> >>,
  << <<<<"A","A">>, Hex00>> >>,
  << <<<<"z","z">>, Hex00>> >>,
  << <<HexAA, <<"z","z">>>> >>,
  << <<<<"a">>, Hex00>> >>,
  << <<HexAA, NotAString>> >>,
  << >> }

GeneratedRuleDicts == { << <<n, p>> >> : n \in GeneratedHex, p \in GeneratedHex }

\* the override files of the engine runs
EnginePatchFiles ==
  {NoFile, MissingFile, UnreadableFile, InvalidJsonFile, NonObjectFile}
  \cup {ObjectFile("replace", <<Entry("custom", rules)>>) :
          rules \in GeneratedRuleDicts \cup ShapedRuleDicts}
  \cup {ObjectFile("absent", <<Entry("custom", <<<<HexAA, Hex00>>>>)>>),
        ObjectFile("absent",
          <<Entry("fastboot", <<<<BUILTIN_PATCHES[1][2][2][1], HexAA>>>>)>>)}

\* the override files of the catalog constructions: every mode, up to two
\* categories (one built in, one new), each value not an object or one of
\* these rule dicts
CatalogModes == {"absent", "update", "UPDATE", "replace", "Replace", "merge"}

CatalogRuleDicts == {
  << >>,
  << <<HexAA, Hex00>> >>,
  << <<BUILTIN_PATCHES[1][2][2][1], HexAA>> >>,
  << <<HexAA, Hex00>>, <<BUILTIN_PATCHES[1][2][1][1], HexAA>> >>,
  << <<<<"z","z">>, Hex00>> >>,
  << <<HexAA, <<"z","z">>>>, <<Hex00, HexAA>> >>,
  << <<HexAA, NotAString>> >> }

CatalogEntries(category) ==
  {BadEntry(category)} \cup {Entry(category, rules) : rules \in CatalogRuleDicts}

CatalogEntryLists ==
  {<<>>}
  \cup {<<e>> : e \in CatalogEntries("fastboot") \cup CatalogEntries("custom")}
  \cup {<<e, f>> : e \in CatalogEntries("fastboot"), f \in CatalogEntries("custom")}
  \cup {<<f, e>> : e \in CatalogEntries("fastboot"), f \in CatalogEntries("custom")}

CatalogPatchFiles ==
  {NoFile, MissingFile, UnreadableFile, InvalidJsonFile, NonObjectFile}
  \cup {ObjectFile(mode, entries) : mode \in CatalogModes, entries \in CatalogEntryLists}

AllCategories == {"fastboot", "dm_verity", "orange_state", "red_state", "custom"}

\* <<patch_categories, exclude_categories>>
Selections == {
  <<{}, {}>>,
  <<{"custom", "fastboot"}, {"fastboot"}>>,
  <<{}, AllCategories>> }

PatcherConfig(verify, allow, dry, selection) ==
  [verify_patch       |-> verify,
   allow_incomplete   |-> allow,
   dry_run            |-> dry,
   patch_categories   |-> selection[1],
   exclude_categories |-> selection[2]]

Configs ==
  {PatcherConfig(v, a, d, s) : v \in BOOLEAN, a \in BOOLEAN, d \in BOOLEAN, s \in Selections}

(***************************************************************************)
(* State.                                                                  *)
(***************************************************************************)
VARIABLES
  DEFAULT_PATCHES,     \* the class attribute PatchManager.DEFAULT_PATCHES
  managers,            \* PatchManager constructions started in this process
  built,               \* the PatchManagers constructed so far, as they were
                       \* when their constructor returned: [patches, shared]
  patches,             \* PatchManager.patches
  shared,              \* categories whose rule dict in patches is the very
                       \* dict object held by DEFAULT_PATCHES (shallow copy)
  patches_count,       \* PatchManager.patches_count
  config,              \* the PatcherConfig given to the constructor
  patches_file,        \* the override file given to the constructor
  pc,                  \* position of the program
  raised,              \* the exception that left the constructor or patch
  image,               \* LkPatcher.image: [path, contents]
  applicable_patches,  \* locals of LkPatcher.patch ...
  total_patches,
  applied_count,
  skipped_count,
  results,
  original_digest,
  ci,                  \* index of the category the outer loop is at
  ri,                  \* index of the rule the inner loop is at
  files,               \* what was written: [output, debug, report]
  calls,               \* calls made on the image by the current patch call:
                       \* [apply_patch, save]
  runs,                \* calls of LkPatcher.patch so far
  run_start,           \* history: image.contents when patch was called
  prev_results,        \* history: the results of the patch call before
  returned,            \* the value patch returned, "" if none
  data,                \* the dict config.to_dict() returned
  config_file,         \* the JSON document config.save() wrote
  loaded               \* what PatcherConfig.from_dict / from_file gave

ctor_vars == <<DEFAULT_PATCHES, managers, built, patches, shared, patches_count, config, patches_file>>
loop_vars == <<applicable_patches, total_patches, applied_count, skipped_count,
               results, original_digest, ci, ri>>
env_vars  == <<files, calls, runs, run_start, prev_results>>
cfg_vars  == <<data, config_file, loaded>>
vars == <<ctor_vars, pc, raised, image, loop_vars, env_vars, returned, cfg_vars>>

NoError == [type |-> "none"]
NotWritten == [written |-> FALSE]
Written(what) == [written |-> TRUE, content |-> what]
NoImage == [loaded |-> FALSE]
NoData == [made |-> FALSE]
NotLoaded == [done |-> FALSE]

InitWith(files_in, configs_in) ==
  /\ DEFAULT_PATCHES = BUILTIN_PATCHES
  /\ managers = 0
  /\ built = <<>>
  /\ patches = <<>>
  /\ shared = {}
  /\ patches_count = 0
  /\ config \in configs_in
  /\ patches_file \in files_in
  /\ pc = "start"
  /\ raised = NoError
  /\ image = NoImage
  /\ applicable_patches = <<>>
  /\ total_patches = 0
  /\ applied_count = 0
  /\ skipped_count = 0
  /\ results = <<>>
  /\ original_digest = <<>>
  /\ ci = 0
  /\ ri = 0
  /\ files = [output |-> NotWritten, debug |-> NotWritten, report |-> NotWritten]
  /\ calls = [apply_patch |-> 0, save |-> 0]
  /\ runs = 0
  /\ run_start = <<>>
  /\ prev_results = <<>>
  /\ returned = ""
  /\ data = NoData
  /\ config_file = NotWritten
  /\ loaded = NotLoaded

Init == InitWith(EnginePatchFiles, Configs)

\* catalog constructions: allow_incomplete and dry_run at their defaults
CatalogConfigs == {c \in Configs : c.allow_incomplete /\ ~c.dry_run}

InitCatalog == InitWith(CatalogPatchFiles, CatalogConfigs)

(***************************************************************************)
(* PatchManager.__init__ and the methods it calls.                         *)
(***************************************************************************)
\* self.patches = self.DEFAULT_PATCHES.copy(): a new outer dict whose values
\* are the rule dicts of DEFAULT_PATCHES themselves
PatchManagerInit ==
  /\ pc = "start"
  /\ patches' = DEFAULT_PATCHES
  /\ shared' = Range(Keys(DEFAULT_PATCHES))
  /\ pc' = "load_patches"
  /\ managers' = managers + 1
  /\ UNCHANGED <<DEFAULT_PATCHES, built, patches_count, config, patches_file,
                 raised, image, loop_vars, env_vars, returned>>
  /\ UNCHANGED cfg_vars

\* str.lower() on the values of 'mode' the model uses
lower(mode) ==
  CASE mode = "UPDATE" -> "update"
    [] mode = "Replace" -> "replace"
    [] OTHER -> mode

\* patch_data.pop('mode', 'update').lower()
mode_of(file) == lower(IF file.mode = "absent" THEN "update" ELSE file.mode)

\* mutant: the category is assigned whatever the mode
merge_category_assign(st, mode, entry) ==
  IF ~entry.is_dict THEN st
  ELSE [patches  |-> Put(st.patches, entry.category, entry.rules),
        shared   |-> st.shared \ {entry.category},
        defaults |-> st.defaults]

\* one iteration of `for category, patches in patch_data.items()` on the state
\* st = [patches, shared, defaults]
merge_category(st, mode, entry) ==
  IF ~entry.is_dict THEN st
  ELSE
    LET cat  == entry.category
        base == IF Has(st.patches, cat) THEN st.patches ELSE Put(st.patches, cat, <<>>)
    IN  IF mode = "update"
          THEN LET merged == Update(Get(base, cat), entry.rules)
               IN  [patches  |-> Put(base, cat, merged),
                    shared   |-> st.shared,
                    defaults |-> IF cat \in st.shared
                                   THEN Put(st.defaults, cat, merged)
                                   ELSE st.defaults]
          ELSE [patches  |-> Put(base, cat, entry.rules),
                shared   |-> st.shared \ {cat},
                defaults |-> st.defaults]

RECURSIVE merge_entries(_, _, _)
merge_entries(st, mode, entries) ==
  IF entries = <<>> THEN st
  ELSE merge_entries(merge_category(st, mode, Head(entries)), mode, Tail(entries))

\* mutant: mode 'replace' does not clear the catalog first
merge_file_no_clear(st, file) == merge_entries(st, mode_of(file), file.entries)

\* the body of load_patches for a file holding a JSON object
merge_file(st, file) ==
  LET mode == mode_of(file)
      st0  == IF mode = "replace"
                THEN [patches |-> <<>>, shared |-> {}, defaults |-> st.defaults]
                ELSE st
  IN  merge_entries(st0, mode, file.entries)

\* if patches_file: self.load_patches(patches_file); of the errors of open()
\* only FileNotFoundError is caught
LoadPatches ==
  /\ pc = "load_patches"
  /\ \/ /\ patches_file.kind \in {"none", "missing"}
        /\ pc' = "validate"
        /\ UNCHANGED <<DEFAULT_PATCHES, patches, shared, raised>>
     \/ /\ patches_file.kind = "unreadable"
        /\ raised' = [type |-> "OSError", file |-> "patches_file"]
        /\ pc' = "failed"
        /\ UNCHANGED <<DEFAULT_PATCHES, patches, shared>>
     \/ /\ patches_file.kind = "invalid_json"
        /\ raised' = [type |-> "InvalidIOFile", file |-> "patches_file"]
        /\ pc' = "failed"
        /\ UNCHANGED <<DEFAULT_PATCHES, patches, shared>>
     \/ /\ patches_file.kind = "non_object"
        /\ raised' = [type |-> "ConfigurationError", file |-> "patches_file"]
        /\ pc' = "failed"
        /\ UNCHANGED <<DEFAULT_PATCHES, patches, shared>>
     \/ /\ patches_file.kind = "object"
        /\ LET st == merge_file([patches |-> patches, shared |-> shared,
                                 defaults |-> DEFAULT_PATCHES], patches_file)
           IN  /\ patches' = st.patches
               /\ shared' = st.shared
               /\ DEFAULT_PATCHES' = st.defaults
        /\ pc' = "validate"
        /\ UNCHANGED raised
  /\ UNCHANGED <<managers, built, patches_count, config, patches_file, image,
                 loop_vars, env_vars, returned>>
  /\ UNCHANGED cfg_vars

\* the checks _validate_patches makes on one rule, in order
validate_rule(rule) ==
  IF ~hex_pattern_match(rule.needle) THEN "needle"
  ELSE IF ~IsString(rule.patch) THEN "TypeError"
  ELSE IF ~hex_pattern_match(rule.patch) THEN "patch"
  ELSE "ok"

\* the first rule, in iteration order, that _validate_patches stops at
first_invalid(rules) ==
  IF \E i \in DOMAIN rules : validate_rule(rules[i]) # "ok"
    THEN CHOOSE i \in DOMAIN rules :
           /\ validate_rule(rules[i]) # "ok"
           /\ \A j \in 1..(i - 1) : validate_rule(rules[j]) = "ok"
    ELSE 0

\* mutant: nothing is validated
validation_skipped(catalog) == NoError

\* what _validate_patches raises on a catalog
validation_error(catalog) ==
  LET rules == Flatten(catalog)
      i     == first_invalid(rules)
  IN  IF i = 0 THEN NoError
      ELSE IF validate_rule(rules[i]) = "TypeError"
        THEN [type |-> "TypeError"]
        ELSE [type   |-> "PatchValidationError",
              needle |-> rules[i].needle,
              patch  |-> rules[i].patch,
              reason |-> [category |-> rules[i].category,
                          part     |-> validate_rule(rules[i])]]

\* if self.config.verify_patch: self._validate_patches()
\* self.patches_count = len(self.get_all_patches())
Validate ==
  /\ pc = "validate"
  /\ LET e == IF config.verify_patch THEN validation_error(patches) ELSE NoError
     IN  IF e = NoError
           THEN /\ patches_count' = Len(Flatten(patches))
                /\ built' = Append(built, [patches |-> patches, shared |-> shared])
                /\ pc' = "load_image"
                /\ UNCHANGED raised
           ELSE /\ raised' = e
                /\ pc' = "failed"
                /\ UNCHANGED <<patches_count, built>>
  /\ UNCHANGED <<DEFAULT_PATCHES, managers, patches, shared, config, patches_file,
                 image, loop_vars, env_vars, returned>>
  /\ UNCHANGED cfg_vars

(***************************************************************************)
(* LkPatcher.__init__ after the PatchManager is built.                     *)
(***************************************************************************)
\* self.image = LkImage(image)
LoadImage ==
  /\ pc = "load_image"
  /\ \E contents \in Images :
       image' = [loaded |-> TRUE, path |-> ImagePath, contents |-> contents]
  /\ pc' = "ready"
  /\ UNCHANGED <<ctor_vars, raised, loop_vars, env_vars, returned>>
  /\ UNCHANGED cfg_vars

(***************************************************************************)
(* Selector.                                                               *)
(***************************************************************************)
\* mutant: a category named in patch_categories is applied even if excluded
should_apply_category_include_first(cfg, category) ==
  IF cfg.patch_categories # {} THEN category \in cfg.patch_categories
  ELSE category \notin cfg.exclude_categories

\* PatcherConfig.should_apply_category
should_apply_category(cfg, category) ==
  IF category \in cfg.exclude_categories THEN FALSE
  ELSE IF cfg.patch_categories = {} THEN TRUE
  ELSE category \in cfg.patch_categories

\* PatchManager.get_applicable_patches: the categories to apply, in catalog
\* order, each with a copy of its rules
RECURSIVE get_applicable_patches(_, _)
get_applicable_patches(catalog, cfg) ==
  IF catalog = <<>> THEN <<>>
  ELSE (IF should_apply_category(cfg, Head(catalog)[1]) THEN <<Head(catalog)>> ELSE <<>>)
       \o get_applicable_patches(Tail(catalog), cfg)

(***************************************************************************)
(* LkPatcher.patch.                                                        *)
(***************************************************************************)
\* NoNeedlesFound(self.image.path or 'Unknown')
NoNeedlesFound(img) ==
  [type |-> "NoNeedlesFound", image |-> IF img.path # "" THEN img.path ELSE "Unknown"]

\* the position after the inner loop has finished category c
after_category(c) ==
  IF c < Len(applicable_patches)
    THEN /\ ci' = c + 1
         /\ ri' = 0
         /\ pc' = "category"
    ELSE /\ ci' = c
         /\ ri' = 0
         /\ pc' = "zero_check"

\* the position after the inner loop has handled rule r of category c
after_rule(c, r) ==
  IF r < Len(applicable_patches[c][2])
    THEN /\ ci' = c
         /\ ri' = r + 1
         /\ pc' = "rule"
    ELSE after_category(c)

\* mutant: the outcomes recorded before for the category are dropped
record_result_overwrite(res, category, needle, value) ==
  Put(res, category, <<<<needle, value>>>>)

\* results[category][needle] = value
record_result(res, category, needle, value) ==
  Put(res, category, Put(Get(res, category), needle, value))

\* mutant: the empty selection is tolerated under allow_incomplete
raises_on_empty_unless_allowed(cfg) == ~cfg.dry_run /\ ~cfg.allow_incomplete

\* on an empty selection: return Path(output) in a dry run, raise otherwise
raises_on_empty(cfg) == ~cfg.dry_run

\* patch() up to the loop: select the rules, stop on an empty selection,
\* set the counters, take the digest of the image
PatchBegin ==
  /\ pc \in {"ready", "returned", "raised"}
  /\ runs < MaxRuns
  /\ runs' = runs + 1
  /\ run_start' = image.contents
  /\ prev_results' = results
  /\ LET applicable == get_applicable_patches(patches, config)
     IN  /\ applicable_patches' = applicable
         /\ total_patches' = Len(Flatten(applicable))
         /\ applied_count' = 0
         /\ skipped_count' = 0
         /\ results' = <<>>
         /\ ri' = 0
         /\ IF applicable = <<>>
              THEN /\ ci' = 0
                   /\ UNCHANGED original_digest
                   /\ IF raises_on_empty(config)
                        THEN /\ pc' = "raised"
                             /\ returned' = ""
                             /\ raised' = NoNeedlesFound(image)
                        ELSE /\ pc' = "returned"
                             /\ returned' = OutputPath
                             /\ raised' = NoError
              ELSE /\ ci' = 1
                   /\ original_digest' = IF image.contents # <<>>
                                           THEN sha256(image.contents)
                                           ELSE <<>>
                   /\ pc' = "category"
                   /\ returned' = ""
                   /\ raised' = NoError
  /\ calls' = [apply_patch |-> 0, save |-> 0]
  /\ UNCHANGED <<ctor_vars, image, files>>
  /\ UNCHANGED cfg_vars

\* the head of the outer loop: results[category] = {}
EnterCategory ==
  /\ pc = "category"
  /\ results' = Put(results, applicable_patches[ci][1], <<>>)
  /\ IF applicable_patches[ci][2] = <<>>
       THEN after_category(ci)
       ELSE /\ ci' = ci
            /\ ri' = 1
            /\ pc' = "rule"
  /\ UNCHANGED <<ctor_vars, raised, image, applicable_patches, total_patches,
                 applied_count, skipped_count, original_digest, env_vars, returned>>
  /\ UNCHANGED cfg_vars

\* mutant: the arguments swapped
apply_patch_args_swapped(needle, patch) == <<patch, needle>>

\* the arguments of self.image.apply_patch(needle, patch)
apply_patch_args(needle, patch) == <<needle, patch>>

\* mutant: the dry-run test is missing
rule_step_live(cfg, contents, needle, patch) ==
  LET args == apply_patch_args(needle, patch)
  IN  [outcome  |-> apply_patch_signal(contents, args[1], args[2]),
       contents |-> apply_patch_contents(contents, args[1], args[2]),
       calls    |-> 1]

\* mutant: every rule is applied to the buffer the call started with
rule_step_on_start(cfg, contents, needle, patch) ==
  IF cfg.dry_run
    THEN [outcome |-> "dry", contents |-> contents, calls |-> 0]
    ELSE [outcome  |-> apply_patch_signal(run_start, needle, patch),
          contents |-> apply_patch_contents(run_start, needle, patch),
          calls    |-> 1]

\* what one iteration of the inner loop does with a rule: in a dry run
\* nothing is called; otherwise apply_patch is called on the buffer
rule_step(cfg, contents, needle, patch) ==
  IF cfg.dry_run
    THEN [outcome |-> "dry", contents |-> contents, calls |-> 0]
    ELSE LET args == apply_patch_args(needle, patch)
         IN  [outcome  |-> apply_patch_signal(contents, args[1], args[2]),
              contents |-> apply_patch_contents(contents, args[1], args[2]),
              calls    |-> 1]

\* mutant: a rule is recorded as applied whatever the signal
recorded_always(outcome) == TRUE

\* the value stored in category_results[needle] for an outcome that the loop
\* survives
recorded(outcome) ==
  CASE outcome = "dry" -> TRUE
    [] outcome = "found" -> TRUE
    [] outcome = "NeedleNotFoundException" -> FALSE

\* the two loops as a whole on a start buffer: the counts, the buffer left
\* and the exception that ended them, if any
RECURSIVE run_rules(_, _, _)
run_rules(cfg, contents, rules) ==
  IF rules = <<>>
    THEN [applied |-> 0, skipped |-> 0, contents |-> contents, error |-> "none"]
    ELSE LET step == rule_step(cfg, contents, Head(rules).needle, Head(rules).patch)
         IN  IF step.outcome \notin {"dry", "found", "NeedleNotFoundException"}
               THEN [applied |-> 0, skipped |-> 0, contents |-> step.contents,
                     error |-> step.outcome]
               ELSE LET rest == run_rules(cfg, step.contents, Tail(rules))
                    IN  [applied  |-> rest.applied +
                                        (IF step.outcome = "NeedleNotFoundException"
                                           THEN 0 ELSE 1),
                         skipped  |-> rest.skipped +
                                        (IF step.outcome = "NeedleNotFoundException"
                                           THEN 1 ELSE 0),
                         contents |-> rest.contents,
                         error    |-> rest.error]

\* one iteration of the inner loop
ApplyRule ==
  /\ pc = "rule"
  /\ LET category == applicable_patches[ci][1]
         needle   == applicable_patches[ci][2][ri][1]
         patch    == applicable_patches[ci][2][ri][2]
         step     == rule_step(config, image.contents, needle, patch)
     IN  /\ image' = [image EXCEPT !.contents = step.contents]
         /\ calls' = [calls EXCEPT !.apply_patch = @ + step.calls]
         /\ \/ /\ step.outcome \in {"dry", "found"}
               /\ results' = record_result(results, category, needle,
                                           recorded(step.outcome))
               /\ applied_count' = applied_count + 1
               /\ after_rule(ci, ri)
               /\ UNCHANGED <<skipped_count, raised>>
            \/ /\ step.outcome = "NeedleNotFoundException"
               /\ results' = record_result(results, category, needle,
                                           recorded(step.outcome))
               /\ skipped_count' = skipped_count + 1
               /\ after_rule(ci, ri)
               /\ UNCHANGED <<applied_count, raised>>
            \/ /\ step.outcome \notin {"dry", "found", "NeedleNotFoundException"}
               /\ raised' = [type |-> step.outcome]
               /\ pc' = "raised"
               /\ UNCHANGED <<results, applied_count, skipped_count, ci, ri>>
  /\ UNCHANGED <<ctor_vars, applicable_patches, total_patches, original_digest,
                 files, runs, run_start, prev_results, returned>>
  /\ UNCHANGED cfg_vars

\* after the loop: with nothing applied in a live run, dump the partitions to
\* '<image>.debug.txt' (open() is not guarded), then raise unless
\* allow_incomplete
ZeroCheck ==
  /\ pc = "zero_check"
  /\ IF applied_count = 0 /\ ~config.dry_run
       THEN \E dump_ok \in BOOLEAN :
              IF ~dump_ok
                THEN /\ raised' = [type |-> "OSError", file |-> "debug"]
                     /\ pc' = "raised"
                     /\ UNCHANGED files
                ELSE /\ files' = [files EXCEPT !.debug = Written("partitions")]
                     /\ IF ~config.allow_incomplete
                          THEN /\ raised' = NoNeedlesFound(image)
                               /\ pc' = "raised"
                          ELSE /\ pc' = "save"
                               /\ UNCHANGED raised
       ELSE /\ pc' = "save"
            /\ UNCHANGED <<raised, files>>
  /\ UNCHANGED <<ctor_vars, image, loop_vars, calls, runs, run_start, prev_results,
                 returned>>
  /\ UNCHANGED cfg_vars

\* if not dry_run: self.image.save(output), FileNotFoundError and
\* PermissionError turned into InvalidIOFile
Save ==
  /\ pc = "save"
  /\ IF ~config.dry_run
       THEN /\ calls' = [calls EXCEPT !.save = @ + 1]
            /\ \E save_ok \in BOOLEAN :
                 IF save_ok
                   THEN /\ files' = [files EXCEPT !.output = Written(image.contents)]
                        /\ pc' = "report"
                        /\ UNCHANGED raised
                   ELSE /\ raised' = [type |-> "InvalidIOFile", file |-> OutputPath]
                        /\ pc' = "raised"
                        /\ UNCHANGED files
       ELSE /\ pc' = "report"
            /\ UNCHANGED <<calls, files, raised>>
  /\ UNCHANGED <<ctor_vars, image, loop_vars, runs, run_start, prev_results,
                 returned>>
  /\ UNCHANGED cfg_vars

\* the report written next to the output
report ==
  [image           |-> image.path,
   total_patches   |-> total_patches,
   applied_patches |-> applied_count,
   skipped_patches |-> skipped_count,
   dry_run         |-> config.dry_run,
   results         |-> results]

\* mutant: the OSError of the report write is not caught
Report_fatal ==
  /\ pc = "report"
  /\ \E report_ok \in BOOLEAN :
       IF report_ok
         THEN /\ files' = [files EXCEPT !.report = Written(report)]
              /\ returned' = OutputPath
              /\ pc' = "returned"
              /\ UNCHANGED raised
         ELSE /\ raised' = [type |-> "OSError", file |-> "report"]
              /\ pc' = "raised"
              /\ UNCHANGED <<files, returned>>
  /\ UNCHANGED <<ctor_vars, image, loop_vars, calls, runs, run_start, prev_results>>
  /\ UNCHANGED cfg_vars

\* write the report (OSError only logged) and return Path(output)
Report ==
  /\ pc = "report"
  /\ \E report_ok \in BOOLEAN :
       IF report_ok
         THEN files' = [files EXCEPT !.report = Written(report)]
         ELSE UNCHANGED files
  /\ returned' = OutputPath
  /\ pc' = "returned"
  /\ UNCHANGED <<ctor_vars, raised, image, loop_vars, calls, runs, run_start,
                 prev_results>>
  /\ UNCHANGED cfg_vars

Next ==
  \/ PatchManagerInit
  \/ LoadPatches
  \/ Validate
  \/ LoadImage
  \/ PatchBegin
  \/ EnterCategory
  \/ ApplyRule
  \/ ZeroCheck
  \/ Save
  \/ Report

Spec == Init /\ [][Next]_vars

\* the override files of a process that builds several PatchManagers
ProcessPatchFiles ==
  {NoFile, MissingFile, UnreadableFile, InvalidJsonFile, NonObjectFile,
   ObjectFile("absent", <<Entry("fastboot", <<<<BUILTIN_PATCHES[1][2][2][1], HexAA>>>>)>>),
   ObjectFile("update", <<Entry("custom", <<<<HexAA, Hex00>>>>),
                          Entry("red_state", <<<<HexAA, <<"z","z">>>>>>)>>),
   ObjectFile("replace", <<Entry("fastboot", <<<<HexAA, Hex00>>>>)>>),
   ObjectFile("merge", <<Entry("dm_verity", <<<<Hex00, HexAA>>>>)>>)}

InitProcess == InitWith(ProcessPatchFiles, CatalogConfigs)

\* the process builds another PatchManager, PatchManager(config, patches_file):
\* a new object, the class attribute as the earlier constructions left it
NewManager ==
  /\ pc \in {"load_image", "failed"}
  /\ managers < MaxManagers
  /\ patches_file' \in ProcessPatchFiles
  /\ patches' = <<>>
  /\ shared' = {}
  /\ patches_count' = 0
  /\ raised' = NoError
  /\ pc' = "start"
  /\ UNCHANGED <<DEFAULT_PATCHES, managers, built, config, image, loop_vars,
                 env_vars, returned>>
  /\ UNCHANGED cfg_vars

\* a process that builds PatchManagers one after another
NextProcess ==
  \/ PatchManagerInit
  \/ LoadPatches
  \/ Validate
  \/ NewManager

SpecProcess == InitProcess /\ [][NextProcess]_vars

\* selections: every pair of subsets of three category names
SelectCategories == {"fastboot", "red_state", "custom"}

SelectConfigs ==
  {PatcherConfig(TRUE, TRUE, d, <<inc, exc>>) :
     d \in BOOLEAN, inc \in SUBSET SelectCategories, exc \in SUBSET SelectCategories}

SelectPatchFiles ==
  {NoFile,
   ObjectFile("absent", <<Entry("custom", <<<<HexAA, Hex00>>>>)>>),
   ObjectFile("replace", <<Entry("custom", <<<<HexAA, Hex00>>, <<Hex00, HexAA>>>>)>>),
   ObjectFile("replace", <<>>)}

InitSelect == InitWith(SelectPatchFiles, SelectConfigs)

\* construction, then patch() up to its loop
NextSelect ==
  \/ PatchManagerInit
  \/ LoadPatches
  \/ Validate
  \/ LoadImage
  \/ PatchBegin

SpecSelect == InitSelect /\ [][NextSelect]_vars

\* PatchManager constructions alone, over the wider set of override files
NextCatalog ==
  \/ PatchManagerInit
  \/ LoadPatches
  \/ Validate

SpecCatalog == InitCatalog /\ [][NextCatalog]_vars

(***************************************************************************)
(* PatcherConfig serialization: to_dict, from_dict, save, from_file.        *)
(***************************************************************************)
\* the members of LogLevel by value (auto() numbers them from 1), with
\* their names
LogLevelNames == <<"DEBUG", "INFO", "WARNING", "ERROR", "CRITICAL">>
LogLevels == DOMAIN LogLevelNames

\* Python values of different types: None, a str, a pathlib.Path
NoneValue == <<"None">>
Str(s) == <<"str", s>>
Path(s) == <<"Path", s>>

\* a PatcherConfig with all its fields
FullConfig(level, backup, dir, verify, allow, dry, selection) ==
  [log_level          |-> level,
   backup             |-> backup,
   backup_dir         |-> dir,
   verify_patch       |-> verify,
   allow_incomplete   |-> allow,
   dry_run            |-> dry,
   patch_categories   |-> selection[1],
   exclude_categories |-> selection[2]]

\* PatcherConfig(): the field defaults
DefaultConfig == FullConfig(2, FALSE, NoneValue, TRUE, TRUE, FALSE, <<{}, {}>>)

BackupDirs == {NoneValue, Path("backups"), Path(".")}

RoundTripConfigs ==
  {FullConfig(l, b, dir, v, a, d, <<inc, exc>>) :
     l \in LogLevels, b \in BOOLEAN, dir \in BackupDirs,
     v \in BOOLEAN, a \in BOOLEAN, d \in BOOLEAN,
     inc \in SUBSET {"fastboot", "custom"}, exc \in SUBSET {"fastboot"}}

\* list(a_set): the elements of the set once each, in some order
Orders(S) == {q \in [1..Cardinality(S) -> S] : Range(q) = S}

\* PatcherConfig.to_dict, the two sets listed in the orders given
to_dict(cfg, categories, excluded) ==
  [log_level          |-> LogLevelNames[cfg.log_level],
   backup             |-> cfg.backup,
   backup_dir         |-> IF cfg.backup_dir # NoneValue
                            THEN Str(cfg.backup_dir[2])
                            ELSE NoneValue,
   verify_patch       |-> cfg.verify_patch,
   allow_incomplete   |-> cfg.allow_incomplete,
   dry_run            |-> cfg.dry_run,
   patch_categories   |-> categories,
   exclude_categories |-> excluded]

\* json.dump / json.load on such a dict: None is written as null
json_dump(d) == [d EXCEPT !.backup_dir = IF @ = NoneValue THEN <<"null">> ELSE @]
json_load(doc) == [doc EXCEPT !.backup_dir = IF @ = <<"null">> THEN NoneValue ELSE @]

\* raise ConfigurationError(str(e)) for the exception e caught
ConfigurationError(cause) ==
  [done |-> TRUE, ok |-> FALSE, error |-> "ConfigurationError", cause |-> cause]

\* PatcherConfig.from_dict on a dict that has every key; dir_ok: the backup
\* directory exists or mkdir creates it.  LogLevel.from_string looks the name
\* up, Path(data['backup_dir']) needs a str, set() forgets the order.
from_dict(d, dir_ok) ==
  IF ~\E l \in LogLevels : LogLevelNames[l] = d.log_level
    THEN ConfigurationError("ValueError")
  ELSE IF d.backup_dir[1] # "str"
    THEN ConfigurationError("TypeError")
  ELSE IF ~dir_ok
    THEN ConfigurationError("OSError")
  ELSE [done |-> TRUE, ok |-> TRUE,
        config |->
          [DefaultConfig EXCEPT
             !.log_level = CHOOSE l \in LogLevels : LogLevelNames[l] = d.log_level,
             !.backup = d.backup,
             !.backup_dir = Path(d.backup_dir[2]),
             !.verify_patch = d.verify_patch,
             !.allow_incomplete = d.allow_incomplete,
             !.dry_run = d.dry_run,
             !.patch_categories = Range(d.patch_categories),
             !.exclude_categories = Range(d.exclude_categories)]]

engine_vars == <<ctor_vars, pc, raised, image, loop_vars, env_vars, returned>>

InitRoundTrip == InitWith({NoFile}, RoundTripConfigs)

\* data = config.to_dict()
ToDict ==
  /\ data = NoData
  /\ loaded = NotLoaded
  /\ \E categories \in Orders(config.patch_categories),
        excluded \in Orders(config.exclude_categories) :
       data' = [made |-> TRUE, dict |-> to_dict(config, categories, excluded)]
  /\ UNCHANGED <<engine_vars, config_file, loaded>>

\* PatcherConfig.from_dict(data)
FromDict ==
  /\ data # NoData
  /\ loaded = NotLoaded
  /\ \E dir_ok \in BOOLEAN : loaded' = from_dict(data.dict, dir_ok)
  /\ UNCHANGED <<engine_vars, data, config_file>>

\* config.save(file_path): json.dump(self.to_dict(), f), an OSError turned
\* into ConfigurationError
SaveConfig ==
  /\ config_file = NotWritten
  /\ loaded = NotLoaded
  /\ \E categories \in Orders(config.patch_categories),
        excluded \in Orders(config.exclude_categories), write_ok \in BOOLEAN :
       config_file' =
         IF write_ok
           THEN Written(json_dump(to_dict(config, categories, excluded)))
           ELSE [written |-> FALSE, error |-> "ConfigurationError"]
  /\ UNCHANGED <<engine_vars, data, loaded>>

\* PatcherConfig.from_file(file_path) on the file save wrote: any exception
\* of from_dict is raised again as ConfigurationError
FromFile ==
  /\ config_file # NotWritten
  /\ config_file.written
  /\ loaded = NotLoaded
  /\ \E dir_ok \in BOOLEAN :
       loaded' = from_dict(json_load(config_file.content), dir_ok)
  /\ UNCHANGED <<engine_vars, data, config_file>>

NextRoundTrip ==
  \/ ToDict
  \/ FromDict
  \/ SaveConfig
  \/ FromFile

SpecRoundTrip == InitRoundTrip /\ [][NextRoundTrip]_vars

(***************************************************************************)
(* Properties.                                                             *)
(***************************************************************************)
\* the rules the current patch call iterates over
Rules == Flatten(applicable_patches)

\* the current patch call has left its loop having handled every rule
LoopDone ==
  /\ runs > 0
  /\ applicable_patches # <<>>
  /\ pc \in {"zero_check", "save", "report", "returned", "raised"}
  /\ raised.type \notin {"ValueError", "TypeError"}

\* the current patch call has ended
RunOver == runs > 0 /\ pc \in {"returned", "raised"}

\* the offsets at which needle occurs in contents
Occurrences(contents, needle) ==
  {i \in 0..Len(contents) : OccursAt(contents, needle, i)}

\* a string of a whole, non-zero number of hex-encoded bytes
ValidHex(s) == IsString(s) /\ s # <<>> /\ fromhex_ok(s)

\* the loop of a live call ran over one rule of valid hex, needle and patch
\* of the same length, on an image holding the needle exactly once
SingleRuleCase ==
  /\ LoopDone
  /\ ~config.dry_run
  /\ Len(Rules) = 1
  /\ ValidHex(Rules[1].needle)
  /\ ValidHex(Rules[1].patch)
  /\ Len(Rules[1].needle) = Len(Rules[1].patch)
  /\ Cardinality(Occurrences(run_start, fromhex(Rules[1].needle))) = 1

\* C1: a live run of one rule of valid hex with needle and patch of equal
\* byte length, on a buffer holding the needle exactly once, leaves a buffer
\* of the same length that holds the patch bytes in the matched span and the
\* original bytes everywhere else.
C1_SingleRuleFrame ==
  SingleRuleCase =>
    LET needle == fromhex(Rules[1].needle)
        patch  == fromhex(Rules[1].patch)
        off    == CHOOSE i \in Occurrences(run_start, needle) : TRUE
    IN  /\ Len(image.contents) = Len(run_start)
        /\ \A i \in 1..Len(run_start) :
             image.contents[i] =
               IF off < i /\ i <= off + Len(needle)
                 THEN patch[i - off]
                 ELSE run_start[i]

\* a two-byte needle found once in the middle of the image and replaced by
\* different bytes, the patched image saved
C1_Witness ==
  /\ SingleRuleCase
  /\ pc = "returned"
  /\ Len(Rules[1].needle) = 4
  /\ find(run_start, fromhex(Rules[1].needle)) = 1
  /\ image.contents # run_start
  /\ files.output = Written(image.contents)

\* the outcome recorded for rule r = [category, needle, patch]
HasResult(res, r) == Has(res, r.category) /\ Has(Get(res, r.category), r.needle)
ResultOf(res, r) == Get(Get(res, r.category), r.needle)

\* the rule the inner loop is about to handle
CurrentRule ==
  [category |-> applicable_patches[ci][1],
   needle   |-> applicable_patches[ci][2][ri][1],
   patch    |-> applicable_patches[ci][2][ri][2]]

\* a live call never ends with the not-found signal, and once its loop is
\* over every rule of the applicable set has an outcome
NotFoundIsNotFatal ==
  /\ raised.type # "NeedleNotFoundException"
  /\ (LoopDone /\ ~config.dry_run) => \A i \in DOMAIN Rules : HasResult(results, Rules[i])

\* what one live iteration records, given the signal of find-and-replace
LiveRuleRecorded ==
  (pc = "rule" /\ ~config.dry_run) =>
    LET r      == CurrentRule
        signal == apply_patch_signal(image.contents, r.needle, r.patch)
    IN  /\ signal = "found" =>
             /\ HasResult(results', r)
             /\ ResultOf(results', r) = TRUE
        /\ signal = "NeedleNotFoundException" =>
             /\ HasResult(results', r)
             /\ ResultOf(results', r) = FALSE
             /\ raised' = NoError
             /\ pc' \in {"rule", "category", "zero_check"}
             /\ pc' = "rule" => (ci' = ci /\ ri' = ri + 1)
        /\ signal \notin {"found", "NeedleNotFoundException"} =>
             ~HasResult(results', r)

\* C2: in a live run the outcome recorded for a rule is true exactly when
\* find-and-replace found the needle and false exactly when it signalled
\* not-found; not-found never ends the run, and the rules after it are
\* still handled.
C2_NotFoundRecorded == []NotFoundIsNotFatal /\ [][LiveRuleRecorded]_vars

\* a live run that recorded false for its first rule and then true for its
\* second has returned
C2_Witness ==
  /\ LoopDone
  /\ ~config.dry_run
  /\ pc = "returned"
  /\ Len(Rules) = 2
  /\ ResultOf(results, Rules[1]) = FALSE
  /\ ResultOf(results, Rules[2]) = TRUE

\* a live call whose loop handled every rule and applied none has ended
ZeroAppliedRunOver ==
  /\ RunOver
  /\ LoopDone
  /\ ~config.dry_run
  /\ applied_count = 0

\* C3: a live run over a non-empty rule set that applies nothing raises
\* NoNeedlesFound with the image path and saves nothing when
\* allow_incomplete is false; when it is true it raises nothing, saves the
\* unmodified image and returns the output path (the save itself
\* succeeding); NoNeedlesFound is never raised once a rule was applied.
C3_ZeroAppliedPolicy ==
  /\ (ZeroAppliedRunOver /\ ~config.allow_incomplete) =>
       /\ raised = [type |-> "NoNeedlesFound", image |-> ImagePath]
       /\ calls.save = 0
  /\ (ZeroAppliedRunOver /\ config.allow_incomplete /\ raised.type # "InvalidIOFile") =>
       /\ raised = NoError
       /\ pc = "returned"
       /\ returned = OutputPath
       /\ files.output = Written(run_start)
  /\ (RunOver /\ applied_count > 0) => raised.type # "NoNeedlesFound"

\* C4: with an empty applicable rule set, allow_incomplete=true and
\* dry_run=false, patch raises nothing, writes the partition dump and saves
\* the unmodified image.
C4_EmptySetAllowed ==
  (RunOver /\ applicable_patches = <<>> /\ config.allow_incomplete /\ ~config.dry_run) =>
    /\ raised = NoError
    /\ files.debug # NotWritten
    /\ files.output = Written(run_start)

\* C5: with an empty applicable rule set and dry_run=false, patch raises
\* NoNeedlesFound (whatever allow_incomplete is) and saves nothing.
C5_EmptySetRaises ==
  (runs > 0 /\ applicable_patches = <<>> /\ ~config.dry_run) =>
    /\ pc = "raised"
    /\ raised = [type |-> "NoNeedlesFound", image |-> ImagePath]
    /\ returned = ""
    /\ calls.save = 0

\* every category excluded, allow_incomplete set, and still the live call
\* has raised
C5_Witness ==
  /\ runs > 0
  /\ applicable_patches = <<>>
  /\ patches # <<>>
  /\ ~config.dry_run
  /\ config.allow_incomplete
  /\ raised.type = "NoNeedlesFound"

\* C6: a dry run never changes the image buffer (content and digest), never
\* calls find-and-replace or save, writes no output image, and records every
\* rule of the applicable set as applied.
C6_DryRunFrame ==
  (config.dry_run /\ runs > 0) =>
    /\ image.contents = run_start
    /\ (applicable_patches # <<>> /\ run_start # <<>>) =>
         sha256(image.contents) = original_digest
    /\ calls.apply_patch = 0
    /\ calls.save = 0
    /\ files.output = NotWritten
    /\ \A i \in DOMAIN Rules : HasResult(results, Rules[i]) => ResultOf(results, Rules[i])
    /\ LoopDone =>
         /\ \A i \in DOMAIN Rules : HasResult(results, Rules[i])
         /\ raised = NoError

\* a dry run has returned after a rule whose needle is in the image and
\* whose patch differs from it
C6_Witness ==
  /\ config.dry_run
  /\ pc = "returned"
  /\ LoopDone
  /\ \E i \in DOMAIN Rules :
       /\ ValidHex(Rules[i].needle)
       /\ ValidHex(Rules[i].patch)
       /\ find(image.contents, fromhex(Rules[i].needle)) # -1
       /\ fromhex(Rules[i].needle) # fromhex(Rules[i].patch)

\* the counts a live run over the start image of the current call and its
\* rule set reports
LiveRun == run_rules([config EXCEPT !.dry_run = FALSE], run_start, Rules)

\* a dry run that handled every rule has returned
DryRunOver == LoopDone /\ config.dry_run /\ pc = "returned"

\* C7 as stated: the applied and skipped counts of a dry run equal those a
\* live run over the same starting image and rule set reports.
C7_DryCountsEqualLive ==
  (DryRunOver /\ LiveRun.error = "none") =>
    /\ applied_count = LiveRun.applied
    /\ skipped_count = LiveRun.skipped

\* C7, amended: a dry run reports every rule as applied and none as skipped;
\* a live run over the same starting image and rule set reports the same
\* counts exactly when it finds every needle.
C7_DryCountsAllApplied ==
  DryRunOver =>
    /\ applied_count = total_patches
    /\ skipped_count = 0
    /\ LiveRun.error = "none" =>
         ((applied_count = LiveRun.applied /\ skipped_count = LiveRun.skipped)
            <=> LiveRun.skipped = 0)

\* a dry run has returned where a live run would find one needle and miss
\* another
C7_Witness ==
  /\ DryRunOver
  /\ LiveRun.error = "none"
  /\ LiveRun.applied > 0
  /\ LiveRun.skipped > 0

\* a rule whose needle and patch both match ^[0-9a-fA-F]+$
RuleMatches(r) ==
  /\ IsString(r.needle)
  /\ hex_pattern_match(r.needle)
  /\ IsString(r.patch)
  /\ hex_pattern_match(r.patch)

\* the override was merged and, where asked for, validation has run
CatalogSettled ==
  /\ pc \notin {"start", "load_patches", "validate"}
  /\ patches_file.kind \notin {"unreadable", "invalid_json", "non_object"}

\* C8: with verify_patch, construction succeeds exactly when every needle
\* and every patch of the merged catalog matches ^[0-9a-fA-F]+$; otherwise
\* it is aborted with a PatchValidationError that carries the needle and the
\* patch of a failing rule and a reason naming its category and whether the
\* needle or the patch is malformed.
C8_ValidationGate ==
  (CatalogSettled /\ config.verify_patch) =>
    LET rules == Flatten(patches)
        bad   == {i \in DOMAIN rules : ~RuleMatches(rules[i])}
    IN  /\ (pc # "failed") <=> (bad = {})
        /\ bad # {} =>
             /\ raised.type = "PatchValidationError"
             /\ \E i \in bad :
                  /\ raised.needle = rules[i].needle
                  /\ raised.patch = rules[i].patch
                  /\ raised.reason.category = rules[i].category
                  /\ raised.reason.part =
                       (IF hex_pattern_match(rules[i].needle) THEN "patch" ELSE "needle")

\* the constructor ended with an error of catalog construction
CtorError ==
  \/ raised.type \in {"PatchValidationError", "ConfigurationError"}
  \/ raised.type = "InvalidIOFile" /\ raised.file = "patches_file"

\* C9: a validation or configuration error of catalog construction is raised
\* before the image is loaded: with such an error no image is loaded, no
\* find-and-replace or save was called and no output, dump or report was
\* written; and an image is only ever loaded for a catalog that raised none.
C9_ErrorsBeforeImage ==
  /\ CtorError => pc = "failed"
  /\ pc = "failed" =>
       /\ image = NoImage
       /\ runs = 0
       /\ calls = [apply_patch |-> 0, save |-> 0]
       /\ files = [output |-> NotWritten, debug |-> NotWritten, report |-> NotWritten]
  /\ image # NoImage =>
       /\ patches_file.kind \notin {"invalid_json", "non_object"}
       /\ config.verify_patch => \A i \in DOMAIN Flatten(patches) : RuleMatches(Flatten(patches)[i])

\* the constructor has raised PatchValidationError for a malformed patch
C9_Witness ==
  /\ pc = "failed"
  /\ raised.type = "PatchValidationError"
  /\ raised.reason.part = "patch"
  /\ image = NoImage

\* the rules of category c in a catalog, none if it is absent
RulesIn(catalog, c) == IF Has(catalog, c) THEN Get(catalog, c) ELSE <<>>

\* load_patches on an object in mode 'update' (given or by default)
UpdateMerge ==
  (pc = "load_patches" /\ patches_file.kind = "object"
                       /\ patches_file.mode \in {"absent", "update"}) =>
    LET named == {e \in Range(patches_file.entries) : e.is_dict}
        cats  == {e.category : e \in named}
    IN  /\ Range(Keys(patches')) = Range(Keys(patches)) \cup cats
        /\ \A c \in Range(Keys(patches)) \ cats : Get(patches', c) = Get(patches, c)
        /\ \A e \in named :
             LET old == RulesIn(patches, e.category)
                 new == Get(patches', e.category)
             IN  /\ Range(Keys(new)) = Range(Keys(old)) \cup Range(Keys(e.rules))
                 /\ \A k \in Range(Keys(new)) :
                      Get(new, k) = IF Has(e.rules, k) THEN Get(e.rules, k) ELSE Get(old, k)

\* C10: loading an override in mode 'update', also when no mode is given,
\* leaves for every category the override names with an object value the
\* union of its previous rules and the override's rules, the override's
\* patch winning for a needle in both; other categories keep their rules and
\* a category not yet in the catalog is added.
C10_UpdateMerge == [][UpdateMerge]_vars

\* an override without a mode was loaded: 'fastboot' kept one built-in rule
\* and had the other overridden, and 'custom' was added
C10_Witness ==
  /\ pc = "validate"
  /\ patches_file.kind = "object"
  /\ patches_file.mode = "absent"
  /\ Has(patches, "custom")
  /\ Len(Get(patches, "fastboot")) = 3
  /\ Get(Get(patches, "fastboot"), BUILTIN_PATCHES[1][2][1][1]) = HexAA
  /\ Get(Get(patches, "fastboot"), BUILTIN_PATCHES[1][2][2][1]) = BUILTIN_PATCHES[1][2][2][2]

\* the override's categories whose value is an object, in file order, as a
\* catalog
NamedCatalog(file) ==
  LET named == SelectSeq(file.entries, LAMBDA e : e.is_dict)
  IN  [i \in DOMAIN named |-> <<named[i].category, named[i].rules>>]

\* load_patches on an object in mode 'replace' (in any letter case)
ReplaceLoad ==
  (pc = "load_patches" /\ patches_file.kind = "object"
                       /\ patches_file.mode \in {"replace", "Replace"}) =>
    /\ pc' = "validate"
    /\ patches' = NamedCatalog(patches_file)
    /\ \A c \in Range(Keys(patches)) :
         Has(patches', c) => \E e \in Range(patches_file.entries) :
                               e.is_dict /\ e.category = c /\ Get(patches', c) = e.rules

\* C11: loading an override in mode 'replace' replaces the whole catalog:
\* afterwards the catalog holds exactly the override's categories whose value
\* is an object, each with exactly the override's rules; no built-in category
\* or rule the override does not name survives.
C11_ReplaceCatalog == [][ReplaceLoad]_vars

\* an override in mode 'replace' that names 'fastboot' with one new rule and
\* gives 'custom' a value that is no object was loaded: the catalog is that
\* one category with that one rule
C11_Witness ==
  /\ pc = "validate"
  /\ patches_file.kind = "object"
  /\ patches_file.mode = "Replace"
  /\ Len(patches_file.entries) = 2
  /\ patches = << <<"fastboot", << <<HexAA, Hex00>> >> >> >>

\* C12: the built-in default table is fixed: after any sequence of
\* PatchManager constructions, with any override files and merge modes,
\* DEFAULT_PATCHES holds its original rules, a PatchManager built without an
\* override has exactly the original default catalog, and no two catalogs
\* built in the process share a rule mapping.
C12_DefaultsFixed ==
  /\ DEFAULT_PATCHES = BUILTIN_PATCHES
  /\ (pc = "load_image" /\ patches_file.kind = "none") => patches = BUILTIN_PATCHES
  /\ \A i, j \in DOMAIN built : i # j => built[i].shared \cap built[j].shared = {}

\* C13: get_applicable_patches returns exactly the catalog's categories that
\* are not in exclude_categories and, unless patch_categories is empty, are in
\* patch_categories, each with exactly the catalog's rules; with both sets
\* empty the result is the whole catalog, and a category named in both sets
\* is excluded.
C13_Selector ==
  runs > 0 =>
    LET selected == {c \in Range(Keys(patches)) :
                       /\ c \notin config.exclude_categories
                       /\ (config.patch_categories = {} \/ c \in config.patch_categories)}
    IN  /\ Range(Keys(applicable_patches)) = selected
        /\ Len(applicable_patches) = Cardinality(selected)
        /\ \A c \in selected : Get(applicable_patches, c) = Get(patches, c)
        /\ (config.patch_categories = {} /\ config.exclude_categories = {}) =>
             applicable_patches = patches
        /\ \A c \in config.patch_categories \cap config.exclude_categories :
             ~Has(applicable_patches, c)

\* 'fastboot' and 'custom' are in the catalog and in patch_categories,
\* 'fastboot' is excluded as well: only 'custom' was selected
C13_Witness ==
  /\ runs > 0
  /\ Has(patches, "fastboot")
  /\ Has(patches, "red_state")
  /\ config.patch_categories = {"fastboot", "custom"}
  /\ config.exclude_categories = {"fastboot"}
  /\ applicable_patches = << <<"custom", << <<HexAA, Hex00>> >> >> >>

\* a live patch call that follows another one on the same patcher, hence on
\* the buffer the call before left, has handled every rule
RerunOver ==
  /\ runs >= 2
  /\ LoopDone
  /\ ~config.dry_run

\* rule r was reported as applied by the call before
AppliedBefore(r) == HasResult(prev_results, r) /\ ResultOf(prev_results, r) = TRUE

\* the needle of rule r occurs in contents
NeedleIn(contents, r) == find(contents, fromhex(r.needle)) # -1

RECURSIVE InOrder(_, _)
InOrder(contents, rules) ==
  IF rules = <<>> THEN [contents |-> contents, found |-> <<>>]
  ELSE LET r    == Head(rules)
           hit  == apply_patch_signal(contents, r.needle, r.patch) = "found"
           rest == InOrder(apply_patch_contents(contents, r.needle, r.patch), Tail(rules))
       IN  [contents |-> rest.contents, found |-> <<hit>> \o rest.found]

\* the number of rules with outcome b
CountOf(found, b) == Cardinality({i \in DOMAIN found : found[i] = b})

\* C15: rules are applied one at a time, categories in catalog insertion
\* order and rules in insertion order within a category, each on the buffer
\* left by all earlier rules; so the buffer, the outcome map, the counts and
\* the saved output of a live run are a function of the image bytes it
\* started from, the rule set and the configuration: two such runs cannot
\* differ.
C15_SequentialDeterministic ==
  (LoopDone /\ ~config.dry_run) =>
    LET out == InOrder(run_start, Flatten(get_applicable_patches(patches, config)))
    IN  /\ image.contents = out.contents
        /\ Keys(results) = Keys(applicable_patches)
        /\ \A c \in DOMAIN results : Keys(results[c][2]) = Keys(applicable_patches[c][2])
        /\ \A i \in DOMAIN Rules : ResultOf(results, Rules[i]) = out.found[i]
        /\ applied_count = CountOf(out.found, TRUE)
        /\ skipped_count = CountOf(out.found, FALSE)
        /\ pc \in {"report", "returned"} => files.output = Written(out.contents)

\* a live run over the chain aa -> 00, 00 -> aa has returned: the second rule
\* found the bytes the first one wrote
C15_Witness ==
  /\ LoopDone
  /\ ~config.dry_run
  /\ pc = "returned"
  /\ Len(Rules) = 2
  /\ ~NeedleIn(run_start, Rules[2])
  /\ ResultOf(results, Rules[1]) = TRUE
  /\ ResultOf(results, Rules[2]) = TRUE
  /\ image.contents = run_start
  /\ Len(run_start) = 1

\* C16: the diagnostic dump of a zero-applied live run is best-effort:
\* whether or not the dump file can be written, patch raises NoNeedlesFound
\* when allow_incomplete is false and goes on to save the image when it is
\* true; no error of the dump write leaves patch.
C16_DumpBestEffort ==
  /\ ~(raised.type = "OSError" /\ raised.file = "debug")
  /\ ZeroAppliedRunOver =>
       IF config.allow_incomplete
         THEN calls.save = 1
         ELSE raised.type = "NoNeedlesFound"

\* in a live call the report is only reached, and a report only exists,
\* once image.save has returned
ReportAfterSave ==
  /\ (pc = "report" /\ ~config.dry_run) =>
       /\ calls.save = 1
       /\ files.output = Written(image.contents)
       /\ raised = NoError
  /\ (files.report # NotWritten /\ ~config.dry_run) => files.output # NotWritten
  /\ ~(raised.type = "OSError" /\ raised.file = "report")

\* the report step, written or not, ends patch normally and touches neither
\* the image buffer nor the saved image
ReportNeverRaises ==
  pc = "report" =>
    /\ pc' = "returned"
    /\ returned' = OutputPath
    /\ raised' = NoError
    /\ image' = image
    /\ files'.output = files.output
    /\ files'.report \in {files.report, Written(report)}

\* C17: writing the report is best-effort and comes after the image save: in
\* live mode the report write is attempted only after image.save returned
\* successfully, and a failed report write never makes patch raise: patch
\* returns the output path and the saved image is unaffected.
C17_ReportBestEffort == []ReportAfterSave /\ [][ReportNeverRaises]_vars

\* a first live call has saved the image, failed to write its report and
\* returned the output path
C17_Witness ==
  /\ runs = 1
  /\ ~config.dry_run
  /\ pc = "returned"
  /\ applicable_patches # <<>>
  /\ applied_count > 0
  /\ returned = OutputPath
  /\ raised = NoError
  /\ files.report = NotWritten
  /\ files.output = Written(image.contents)

\* C18: an override file that cannot be read, because it is missing or
\* because it is unreadable, is recoverable: the construction raises nothing
\* and the catalog is exactly the built-in default catalog.
C18_UnreadableRecoverable ==
  (patches_file.kind \in {"missing", "unreadable"} /\ pc \notin {"start", "load_patches"}) =>
    /\ raised = NoError
    /\ pc # "failed"
    /\ patches = BUILTIN_PATCHES

\* C19: once a PatchManager was constructed with verify_patch, every needle
\* and every patch of the catalog is a non-empty string of an even number of
\* hex digits, so find-and-replace is never handed a rule with an odd number
\* of digits.
C19_WholeBytes ==
  config.verify_patch =>
    /\ pc \notin {"start", "load_patches", "validate", "failed"} =>
         \A i \in DOMAIN Flatten(patches) :
           ValidHex(Flatten(patches)[i].needle) /\ ValidHex(Flatten(patches)[i].patch)
    /\ raised.type # "ValueError"

\* the entries of an outcome map with value b, as [category, needle]
EntriesWith(res, b) ==
  UNION {{<<res[c][1], res[c][2][n][1]>> : n \in {m \in DOMAIN res[c][2] : res[c][2][m][2] = b}} :
           c \in DOMAIN res}

\* the current patch call is past its empty-selection check and at a point
\* where it reads the counters: the summary and the zero-applied check, the
\* save, the report
CountersRead ==
  /\ runs > 0
  /\ applicable_patches # <<>>
  /\ pc \in {"zero_check", "save", "report"}

\* C20: in a patch run past the empty-selection check, dry or live, the
\* counters agree with the outcome map: applied_count is the number of true
\* entries and skipped_count the number of false ones; where the counters are
\* read after the loop the outcome map has exactly the categories and needles
\* of the applicable rule set and applied_count + skipped_count =
\* total_patches.
C20_CountersMatchOutcomes ==
  /\ (runs > 0 /\ applicable_patches # <<>>) =>
       /\ applied_count = Cardinality(EntriesWith(results, TRUE))
       /\ skipped_count = Cardinality(EntriesWith(results, FALSE))
       /\ total_patches = Len(Rules)
  /\ CountersRead =>
       /\ Keys(results) = Keys(applicable_patches)
       /\ \A c \in DOMAIN results : Keys(results[c][2]) = Keys(applicable_patches[c][2])
       /\ applied_count + skipped_count = total_patches

\* a live run over two rules is at its report with one rule applied and one
\* skipped
C20_Witness ==
  /\ CountersRead
  /\ pc = "report"
  /\ ~config.dry_run
  /\ total_patches = 2
  /\ applied_count = 1
  /\ skipped_count = 1

\* C21: PatcherConfig serialization round-trips: for every configuration,
\* the default one with backup_dir unset included, from_dict(to_dict()) and
\* from_file after save raise no error and give a configuration equal in
\* every field (the backup directory being there or creatable).
C21_ConfigRoundTrip ==
  (loaded # NotLoaded /\ ~(~loaded.ok /\ loaded.cause = "OSError")) =>
    /\ loaded.ok
    /\ loaded.config = config

====
